---- MODULE Spec2Model ----
(***************************************************************************)
(* A model of yc_search.py: the HTTP client with bounded retry, the text   *)
(* normalizer, the field extractor, the "Who is hiring?" thread locator    *)
(* and the search pipeline.                                                *)
(*                                                                         *)
(* Python strings are sequences of one-character strings.  Python values   *)
(* whose type matters (None, int, str) are tagged records, see None.       *)
(***************************************************************************)
EXTENDS Integers, Sequences, FiniteSets, TLC

(* ------------------------------------------------------------------ *)
(* Bounds of the model                                                 *)
(* ------------------------------------------------------------------ *)

\* _http_get_json is called directly with retries in -1..MaxRetries
MaxRetries == 3
\* yc_search is called with limit 0, 1 or MaxLimit
MaxLimit == 2
\* the item endpoint returns at most MaxComments children
MaxComments == 2
\* the search endpoints return at most MaxHits hits
MaxHits == 2
\* _strip_html is applied to concatenations of at most MaxPieces pieces
MaxPieces == 3

(* ------------------------------------------------------------------ *)
(* Python values                                                       *)
(* ------------------------------------------------------------------ *)

None == [t |-> "none"]
PyInt(n) == [t |-> "int", v |-> n]
PyStr(s) == [t |-> "str", v |-> s]

Min(a, b) == IF a <= b THEN a ELSE b

\* s[:n] for n >= 0
Take(s, n) == SubSeq(s, 1, Min(n, Len(s)))

\* s[n:] for n >= 0 (n counts the characters dropped)
Drop(s, n) == SubSeq(s, n + 1, Len(s))

UpperChars == << "A","B","C","D","E","F","G","H","I","J","K","L","M",
                 "N","O","P","Q","R","S","T","U","V","W","X","Y","Z" >>
LowerChars == << "a","b","c","d","e","f","g","h","i","j","k","l","m",
                 "n","o","p","q","r","s","t","u","v","w","x","y","z" >>
DigitChars == << "0","1","2","3","4","5","6","7","8","9" >>

Range(f) == { f[i] : i \in DOMAIN f }

UpperSet == Range(UpperChars)
LowerSet == Range(LowerChars)
DigitSet == Range(DigitChars)

LowerChar(c) ==
  IF c \in UpperSet
    THEN LowerChars[CHOOSE i \in DOMAIN UpperChars : UpperChars[i] = c]
    ELSE c

\* str.lower()
Lower(s) == [i \in 1..Len(s) |-> LowerChar(s[i])]

\* the characters str.isspace() and the regex class \s accept
IsSpace(c) == c \in {" ", "\t", "\n", "\r", "\f"}

\* the regex class \w
WordSet == UpperSet \cup LowerSet \cup DigitSet \cup {"_"}
IsWordChar(c) == c \in WordSet

\* sub in s
Contains(s, sub) ==
  \E i \in 0..(Len(s) - Len(sub)) : SubSeq(s, i + 1, i + Len(sub)) = sub

\* s.startswith(p)
StartsWith(s, p) == Len(p) <= Len(s) /\ SubSeq(s, 1, Len(p)) = p

\* str.lstrip(), str.rstrip(), str.strip()
RECURSIVE LStrip(_)
LStrip(s) == IF s # <<>> /\ IsSpace(Head(s)) THEN LStrip(Tail(s)) ELSE s

RECURSIVE RStrip(_)
RStrip(s) ==
  IF s # <<>> /\ IsSpace(s[Len(s)]) THEN RStrip(SubSeq(s, 1, Len(s) - 1)) ELSE s

Strip(s) == RStrip(LStrip(s))

\* index of the first character of s, at or after position from, that is in
\* the set cs; 0 when there is none
FindFirst(s, cs, from) ==
  IF \E i \in from..Len(s) : s[i] \in cs
    THEN CHOOSE i \in from..Len(s) :
           s[i] \in cs /\ \A j \in from..(i - 1) : s[j] \notin cs
    ELSE 0

\* concatenation of a sequence of strings
RECURSIVE Concat(_)
Concat(ss) == IF ss = <<>> THEN <<>> ELSE Head(ss) \o Concat(Tail(ss))

(* ------------------------------------------------------------------ *)
(* _strip_html                                                         *)
(* ------------------------------------------------------------------ *)

\* the index of the ">" closing a match of <[^>]+> that starts at s[i], or 0
\* when the regex does not match there
TagEnd(s, i) ==
  LET j == FindFirst(s, {">"}, i + 1)
  IN  IF s[i] = "<" /\ j >= i + 2 THEN j ELSE 0

\* the start of the leftmost match of <[^>]+> in s, or 0
TagStart(s) ==
  IF \E i \in 1..Len(s) : TagEnd(s, i) > 0
    THEN CHOOSE i \in 1..Len(s) :
           TagEnd(s, i) > 0 /\ \A j \in 1..(i - 1) : TagEnd(s, j) = 0
    ELSE 0

\* re.sub(r"<[^>]+>", " ", text): the matches are replaced left to right
RECURSIVE RemoveTags(_)
RemoveTags(s) ==
  LET i == TagStart(s)
  IN  IF i = 0 THEN s
      ELSE Take(s, i - 1) \o <<" ">> \o RemoveTags(Drop(s, TagEnd(s, i)))

\* the entries of html.entities.html5 whose names can be written with the
\* characters of the model's texts
Html5 ==
  { [name |-> <<"l","t",";">>,         val |-> <<"<">>],
    [name |-> <<"l","t">>,             val |-> <<"<">>],
    [name |-> <<"g","t",";">>,         val |-> <<">">>],
    [name |-> <<"g","t">>,             val |-> <<">">>],
    [name |-> <<"a","m","p",";">>,     val |-> <<"&">>],
    [name |-> <<"a","m","p">>,         val |-> <<"&">>] }

InHtml5(n) == \E e \in Html5 : e.name = n
Html5Val(n) == (CHOOSE e \in Html5 : e.name = n).val

\* chr(num) for the code points of the model's characters
Chr(num) ==
  CASE num = 9  -> <<"\t">>
    [] num = 10 -> <<"\n">>
    [] num = 32 -> <<" ">>
    [] num = 38 -> <<"&">>
    [] num = 59 -> <<";">>
    [] num = 60 -> <<"<">>
    [] num = 62 -> <<">">>
    [] num = 98 -> <<"b">>
    [] OTHER    -> <<"?">>

DigitVal(c) == (CHOOSE i \in DOMAIN DigitChars : DigitChars[i] = c) - 1

\* int(ds) for a non-empty string of decimal digits
RECURSIVE DecimalValue(_)
DecimalValue(ds) ==
  IF ds = <<>> THEN 0
  ELSE 10 * DecimalValue(SubSeq(ds, 1, Len(ds) - 1)) + DigitVal(ds[Len(ds)])

\* length of the longest prefix of s made of characters in cs, capped at cap
RECURSIVE SpanLen(_, _, _)
SpanLen(s, cs, cap) ==
  IF s = <<>> \/ cap = 0 \/ Head(s) \notin cs THEN 0
  ELSE 1 + SpanLen(Tail(s), cs, cap - 1)

\* length of the longest prefix of s made of characters outside cs, capped
RECURSIVE SpanNotLen(_, _, _)
SpanNotLen(s, cs, cap) ==
  IF s = <<>> \/ cap = 0 \/ Head(s) \in cs THEN 0
  ELSE 1 + SpanNotLen(Tail(s), cs, cap - 1)

\* the characters that end a named character reference: [^\t\n\f <&#;]
NameStop == {"\t", "\n", "\f", " ", "<", "&", "#", ";"}

\* the longest x in 2..hi with s[:x] in html5, or 0
RECURSIVE LongestName(_, _)
LongestName(s, hi) ==
  IF hi < 2 THEN 0
  ELSE IF InHtml5(Take(s, hi)) THEN hi
  ELSE LongestName(s, hi - 1)

\* html._replace_charref on a named reference s (the text after "&")
ReplaceNamed(s) ==
  IF InHtml5(s) THEN Html5Val(s)
  ELSE LET x == LongestName(s, Len(s) - 1)
       IN  IF x > 0 THEN Html5Val(Take(s, x)) \o Drop(s, x)
           ELSE <<"&">> \o s

\* the match of html._charref at the start of s as [len, out], the number of
\* characters matched and their replacement; len = 0 when the regex does not
\* match there
CharRef(s) ==
  LET r == Tail(s)
  IN  IF Head(s) # "&" THEN [len |-> 0, out |-> <<>>]
      ELSE IF r # <<>> /\ Head(r) = "#"
        THEN LET d == SpanLen(Tail(r), DigitSet, Len(r))
                 semi == IF Len(r) >= d + 2 /\ r[d + 2] = ";" THEN 1 ELSE 0
             IN  IF d = 0 THEN [len |-> 0, out |-> <<>>]
                 ELSE [len |-> 2 + d + semi,
                       out |-> Chr(DecimalValue(SubSeq(r, 2, d + 1)))]
        ELSE LET n == SpanNotLen(r, NameStop, 32)
                 semi == IF Len(r) >= n + 1 /\ r[n + 1] = ";" THEN 1 ELSE 0
             IN  IF n = 0 THEN [len |-> 0, out |-> <<>>]
                 ELSE [len |-> 1 + n + semi,
                       out |-> ReplaceNamed(Take(r, n + semi))]

\* the start of the leftmost character reference in s, or 0
RefStart(s) ==
  IF \E i \in 1..Len(s) : s[i] = "&" /\ CharRef(Drop(s, i - 1)).len > 0
    THEN CHOOSE i \in 1..Len(s) :
           /\ s[i] = "&" /\ CharRef(Drop(s, i - 1)).len > 0
           /\ \A j \in 1..(i - 1) : ~(s[j] = "&" /\ CharRef(Drop(s, j - 1)).len > 0)
    ELSE 0

\* html.unescape(text): the references are replaced left to right, and a
\* replacement is not scanned again
RECURSIVE Unescape(_)
Unescape(s) ==
  LET i == RefStart(s)
      m == CharRef(Drop(s, i - 1))
  IN  IF i = 0 THEN s
      ELSE Take(s, i - 1) \o m.out \o Unescape(Drop(s, i - 1 + m.len))

SpaceChars == {" ", "\t", "\n", "\r", "\f"}

\* re.sub(r"\s+", " ", text): each run of whitespace becomes one space
RECURSIVE CollapseSpace(_)
CollapseSpace(s) ==
  LET i == FindFirst(s, SpaceChars, 1)
  IN  IF i = 0 THEN s
      ELSE Take(s, i - 1) \o <<" ">>
             \o CollapseSpace(Drop(s, i - 1 + SpanLen(Drop(s, i - 1), SpaceChars, Len(s))))

\* _strip_html decoding the entities after normalizing the whitespace
_strip_html_unescape_last(text) == Unescape(Strip(CollapseSpace(RemoveTags(text))))

_strip_html(text) == Strip(CollapseSpace(Unescape(RemoveTags(text))))

(* ------------------------------------------------------------------ *)
(* _extract_company_and_title                                          *)
(* ------------------------------------------------------------------ *)

\* the en dash and the em dash, each one character of a Python string
EnDash == "U+2013"
EmDash == "U+2014"

\* [\-–:–—]
Separators == {"-", ":", EnDash, EmDash}

\* the characters str.splitlines() breaks a line at
LineBreaks == {"\n", "\r", "\f"}

\* index of the first occurrence of sub in s, or 0
FindSub(s, sub, from) ==
  LET At(i) == SubSeq(s, i, i + Len(sub) - 1) = sub
      last == Len(s) - Len(sub) + 1
  IN  IF \E i \in from..last : At(i)
        THEN CHOOSE i \in from..last : At(i) /\ \A j \in from..(i - 1) : ~At(j)
        ELSE 0

\* text.split(". ")[0]
FirstSentence(text) ==
  LET i == FindSub(text, <<".", " ">>, 1)
  IN  IF i = 0 THEN text ELSE Take(text, i - 1)

\* seg.splitlines()[0] for a non-empty seg
FirstLine(seg) ==
  LET i == FindFirst(seg, LineBreaks, 1)
  IN  IF i = 0 THEN seg ELSE Take(seg, i - 1)

\* re.split(r",|\|", s)
RECURSIVE SplitOn(_, _)
SplitOn(s, cs) ==
  LET i == FindFirst(s, cs, 1)
  IN  IF i = 0 THEN <<s>>
      ELSE <<Take(s, i - 1)>> \o SplitOn(Drop(s, i), cs)

\* [p.strip() for p in pieces if p.strip()]
RECURSIVE StrippedNonEmpty(_)
StrippedNonEmpty(ps) ==
  IF ps = <<>> THEN <<>>
  ELSE IF Strip(Head(ps)) = <<>> THEN StrippedNonEmpty(Tail(ps))
  ELSE <<Strip(Head(ps))>> \o StrippedNonEmpty(Tail(ps))

CompanyMax == 80
TitleMax == 120

\* lines 85-101 on the first line `first`
ExtractFromFirst(first) ==
  LET i == FindFirst(first, Separators, 1)
      p == FindFirst(first, {"(", ")"}, 1)
      q == IF p = 0 THEN 0 ELSE FindFirst(first, {")"}, p + 1)
      parts == StrippedNonEmpty(SplitOn(first, {",", "|"}))
  IN  IF i >= 2 /\ Len(first) > i
        THEN [company |-> Take(Strip(Take(first, i - 1)), CompanyMax),
              title   |-> Take(Strip(Drop(first, i)), TitleMax)]
      ELSE IF p >= 2 /\ first[p] = "(" /\ q >= p + 2
        THEN LET rest == Strip(Drop(first, q))
             IN  [company |-> Take(Strip(Take(first, p - 1)), CompanyMax),
                  title   |-> Take(IF rest # <<>> THEN rest ELSE first, TitleMax)]
      ELSE IF Len(parts) >= 2
        THEN [company |-> Take(parts[1], CompanyMax),
              title   |-> Take(parts[2], TitleMax)]
      ELSE [company |-> <<>>, title |-> Take(first, TitleMax)]

\* _extract_company_and_title(text): [exc, company, title]; exc is "" when
\* the function returns, and the name of the exception when it raises
_extract_company_and_title(text) ==
  IF text = <<>> THEN [exc |-> "", company |-> <<>>, title |-> <<>>]
  ELSE IF FirstSentence(text) = <<>>
    THEN [exc |-> "IndexError", company |-> <<>>, title |-> <<>>]
  ELSE LET r == ExtractFromFirst(FirstLine(FirstSentence(text)))
       IN  [exc |-> "", company |-> r.company, title |-> r.title]

(* ------------------------------------------------------------------ *)
(* _extract_location, _matches_terms, _matches_location                *)
(* ------------------------------------------------------------------ *)

S_remote == <<"r","e","m","o","t","e">>
S_Remote == <<"R","e","m","o","t","e">>

Cities ==
  << [key |-> <<"s","a","n"," ","f","r","a","n","c","i","s","c","o">>,
      proper |-> <<"S","a","n"," ","F","r","a","n","c","i","s","c","o">>],
     [key |-> <<"s","f">>,
      proper |-> <<"S","a","n"," ","F","r","a","n","c","i","s","c","o">>],
     [key |-> <<"n","e","w"," ","y","o","r","k">>,
      proper |-> <<"N","e","w"," ","Y","o","r","k">>],
     [key |-> <<"n","y","c">>,
      proper |-> <<"N","e","w"," ","Y","o","r","k">>],
     [key |-> <<"s","e","a","t","t","l","e">>, proper |-> <<"S","e","a","t","t","l","e">>],
     [key |-> <<"a","u","s","t","i","n">>,     proper |-> <<"A","u","s","t","i","n">>],
     [key |-> <<"b","o","s","t","o","n">>,     proper |-> <<"B","o","s","t","o","n">>],
     [key |-> <<"l","o","n","d","o","n">>,     proper |-> <<"L","o","n","d","o","n">>],
     [key |-> <<"b","e","r","l","i","n">>,     proper |-> <<"B","e","r","l","i","n">>],
     [key |-> <<"t","o","r","o","n","t","o">>, proper |-> <<"T","o","r","o","n","t","o">>] >>

\* re.search(rf"\b{key}\b", t) for a key that starts and ends with a word
\* character
WordSearch(t, key) ==
  \E i \in 1..(Len(t) - Len(key) + 1) :
    /\ SubSeq(t, i, i + Len(key) - 1) = key
    /\ (i = 1 \/ ~IsWordChar(t[i - 1]))
    /\ (i + Len(key) > Len(t) \/ ~IsWordChar(t[i + Len(key)]))

RECURSIVE FirstCity(_, _)
FirstCity(t, k) ==
  IF k > Len(Cities) THEN <<>>
  ELSE IF WordSearch(t, Cities[k].key) THEN Cities[k].proper
  ELSE FirstCity(t, k + 1)

_extract_location(text) ==
  LET t == Lower(text)
  IN  IF Contains(t, S_remote) THEN S_Remote ELSE FirstCity(t, 1)

\* terms is a list of str
_matches_terms(text, terms) ==
  \/ terms = <<>>
  \/ \A k \in DOMAIN terms : Contains(Lower(text), Lower(terms[k]))

\* `not location` for location: Optional[str]
Falsy(x) == x = None \/ (x.t = "str" /\ x.v = <<>>) \/ (x.t = "int" /\ x.v = 0)

\* _matches_location taking any text for a remote posting
_matches_location_remote_any(text, location) ==
  IF Falsy(location) THEN TRUE
  ELSE LET loc == Lower(Strip(location.v))
           t == Lower(text)
       IN  IF loc = S_remote THEN TRUE ELSE Contains(t, loc)

\* location is None or a str
_matches_location(text, location) ==
  IF Falsy(location) THEN TRUE
  ELSE LET loc == Lower(Strip(location.v))
           t == Lower(text)
       IN  IF loc = S_remote THEN Contains(t, S_remote) ELSE Contains(t, loc)

(* ------------------------------------------------------------------ *)
(* str(), int()                                                        *)
(* ------------------------------------------------------------------ *)

\* str(n) for n >= 0
RECURSIVE NatStr(_)
NatStr(n) ==
  IF n < 10 THEN <<DigitChars[n + 1]>>
  ELSE NatStr(n \div 10) \o <<DigitChars[(n % 10) + 1]>>

S_None == <<"N","o","n","e">>

\* str(x), as an f-string or str.format renders x
Str(x) ==
  CASE x.t = "none" -> S_None
    [] x.t = "str"  -> x.v
    [] x.t = "int"  -> IF x.v < 0 THEN <<"-">> \o NatStr(-x.v) ELSE NatStr(x.v)

\* digits, single underscores allowed between them
IsIntLiteral(ds) ==
  /\ ds # <<>>
  /\ \A i \in DOMAIN ds : ds[i] \in DigitSet \cup {"_"}
  /\ ds[1] # "_" /\ ds[Len(ds)] # "_"
  /\ \A i \in 1..(Len(ds) - 1) : ~(ds[i] = "_" /\ ds[i + 1] = "_")

\* the digits of ds without the underscores
RECURSIVE OnlyDigits(_)
OnlyDigits(ds) ==
  IF ds = <<>> THEN <<>>
  ELSE IF Head(ds) = "_" THEN OnlyDigits(Tail(ds))
  ELSE <<Head(ds)>> \o OnlyDigits(Tail(ds))

\* int(x) as [ok, val]: ok is FALSE when int(x) raises
IntOf(x) ==
  CASE x.t = "int"  -> [ok |-> TRUE, val |-> x.v]
    [] x.t = "none" -> [ok |-> FALSE, val |-> 0]
    [] x.t = "str"  ->
         LET s == Strip(x.v)
             neg == s # <<>> /\ Head(s) = "-"
             ds == IF s # <<>> /\ Head(s) \in {"-", "+"} THEN Tail(s) ELSE s
         IN  IF IsIntLiteral(ds)
               THEN [ok |-> TRUE,
                     val |-> IF neg THEN -DecimalValue(OnlyDigits(ds))
                             ELSE DecimalValue(OnlyDigits(ds))]
               ELSE [ok |-> FALSE, val |-> 0]

(* ------------------------------------------------------------------ *)
(* String constants of the program                                     *)
(* ------------------------------------------------------------------ *)

\* "hn_"
S_hn == <<"h","n","_">>
\* "ycombinator"
S_ycombinator == <<"y","c","o","m","b","i","n","a","t","o","r">>
\* "Software Engineer"
S_SoftwareEngineer == <<"S","o","f","t","w","a","r","e"," ","E","n","g","i","n","e","e","r">>
\* "Unknown"
S_Unknown == <<"U","n","k","n","o","w","n">>
\* "comment"
S_comment == <<"c","o","m","m","e","n","t">>
\* "https://news.ycombinator.com/item?id={}" up to the placeholder
HN_ITEM_URL == <<"h","t","t","p","s",":","/","/","n","e","w","s",".","y","c","o","m","b","i","n","a","t","o","r",".","c","o","m","/","i","t","e","m","?","i","d","=">>
\* the literal text of the pattern before and after \s*
S_ask_hn == <<"a","s","k"," ","h","n",":">>
S_who_is_hiring == <<"w","h","o"," ","i","s"," ","h","i","r","i","n","g","?">>

DescriptionMax == 800
SleepBaseMs == 800
DefaultRetries == 2

(* ------------------------------------------------------------------ *)
(* Outcomes of a call                                                  *)
(* ------------------------------------------------------------------ *)

NoOut == [kind |-> "none"]
Return(v) == [kind |-> "return", val |-> v]
Raise(e) == [kind |-> "raise", exc |-> e]

\* a missing key of a JSON object, an unassigned local
Absent == [t |-> "absent"]
PyList(v) == [t |-> "list", v |-> v]

(* ------------------------------------------------------------------ *)
(* Thread selection, lines 173-187                                     *)
(* ------------------------------------------------------------------ *)

\* pat.search(title) for pat = ask hn:\s*who is hiring\? with re.IGNORECASE
TitleMatches(title) ==
  LET lt == Lower(title)
  IN  \E i \in 0..Len(lt) :
        /\ StartsWith(Drop(lt, i), S_ask_hn)
        /\ StartsWith(LStrip(Drop(lt, i + Len(S_ask_hn))), S_who_is_hiring)

\* h.get("title") or ""
TitleOf(h) == IF h.title.t = "str" THEN h.title.v ELSE <<>>

\* ScanHits with `break` for the `continue` of line 180
RECURSIVE ScanHits_break(_, _)
ScanHits_break(v, k) ==
  IF k > Len(v) THEN NoOut
  ELSE IF v[k].k # "dict" THEN Raise("AttributeError")
  ELSE IF TitleMatches(TitleOf(v[k]))
    THEN IF IntOf(v[k].objectID).ok
           THEN Return(PyInt(IntOf(v[k].objectID).val))
           ELSE NoOut
  ELSE ScanHits_break(v, k + 1)

\* the for loop of lines 174-180 from hit k on: the outcome of the loop, or
\* NoOut when the loop ends without returning
RECURSIVE ScanHits(_, _)
ScanHits(v, k) ==
  IF k > Len(v) THEN NoOut
  ELSE IF v[k].k # "dict" THEN Raise("AttributeError")
  ELSE IF TitleMatches(TitleOf(v[k])) /\ IntOf(v[k].objectID).ok
    THEN Return(PyInt(IntOf(v[k].objectID).val))
  ELSE ScanHits(v, k + 1)

\* lines 173-187 for the local `hits`
SelectStory(hs) ==
  IF hs.t # "list" THEN Raise("TypeError")
  ELSE LET r == ScanHits(hs.v, 1)
       IN  IF r # NoOut THEN r
           ELSE IF hs.v # <<>> /\ IntOf(hs.v[1].objectID).ok
             THEN Return(PyInt(IntOf(hs.v[1].objectID).val))
           ELSE Return(None)

(* ------------------------------------------------------------------ *)
(* One iteration of the loop of yc_search, lines 217-246               *)
(* ------------------------------------------------------------------ *)

\* c.get("text") or ""
RawText(c) == IF Falsy(c.text) THEN PyStr(<<>>) ELSE c.text

\* lines 229-243 for a comment c whose normalized text is text
JobOf(c, text, loc_arg) ==
  LET ct == _extract_company_and_title(text)
      loc == IF Falsy(loc_arg) THEN _extract_location(text) ELSE loc_arg.v
  IN  [id          |-> S_hn \o Str(c.id),
       source      |-> S_ycombinator,
       title       |-> IF ct.title # <<>> THEN ct.title ELSE S_SoftwareEngineer,
       company     |-> IF ct.company # <<>> THEN ct.company
                       ELSE IF Falsy(c.author) THEN S_Unknown ELSE c.author.v,
       location    |-> loc,
       description |-> Take(text, DescriptionMax),
       url         |-> HN_ITEM_URL \o Str(c.id)]

\* what one iteration does with comment c: [act, exc, job] with act one of
\* "skip" (continue), "append" (results.append(job)), "raise"
CommentStep(c, term_arg, loc_arg) ==
  LET skip == [act |-> "skip", exc |-> "", job |-> <<>>]
  IN  IF c.k = "null" THEN skip
      ELSE IF c.k # "dict" THEN [act |-> "raise", exc |-> "AttributeError", job |-> <<>>]
      ELSE IF c.type # PyStr(S_comment) THEN skip
      ELSE IF RawText(c).t # "str" THEN [act |-> "raise", exc |-> "TypeError", job |-> <<>>]
      ELSE LET text == _strip_html(RawText(c).v)
           IN  IF text = <<>> THEN skip
               ELSE IF ~_matches_terms(text, term_arg) THEN skip
               ELSE IF ~_matches_location(text, loc_arg) THEN skip
               ELSE IF _extract_company_and_title(text).exc # ""
                 THEN [act |-> "raise", exc |-> _extract_company_and_title(text).exc,
                       job |-> <<>>]
               ELSE [act |-> "append", exc |-> "", job |-> JobOf(c, text, loc_arg)]

(* ------------------------------------------------------------------ *)
(* Inputs: arguments and the answers of the network                    *)
(* ------------------------------------------------------------------ *)

\* what one GET attempt can fail with: SESSION.get, raise_for_status, json
Errors == {"ConnectionError", "HTTPError", "JSONDecodeError"}

\* all sequences over S of length at most n
SeqsUpTo(S, n) == UNION { [1..k -> S] : k \in 0..n }

\* n copies of "x"
Pad(n) == [i \in 1..n |-> "x"]

T_globex == <<"<","p",">","G","l","o","b","e","x"," ","(","R","e","m","o","t","e",")"," ","B","a","c","k","e","n","d"," ","r","o","l","e","s"," ","o","p","e","n","<","/","p",">">>
T_acme == <<"A","c","m","e"," ","C","o","r","p"," ","-"," ","S","e","n","i","o","r"," ","E","n","g","i","n","e","e","r","."," ","W","e"," ","a","r","e"," ","h","i","r","i","n","g"," ","i","n"," ","A","u","s","t","i","n">>
T_markup == <<"<","p",">"," ","<","/","p",">">>
T_dot == <<"."," ","R","e","m","o","t","e">>
T_long == <<"I","n","i","t","e","c","h"," ","|"," ","G","o"," ">> \o Pad(DescriptionMax) \o <<" ","r","e","m","o","t","e">>

\* the comment nodes the item endpoint answers with
N_globex == [k |-> "dict", type |-> PyStr(S_comment), id |-> PyInt(555),
             text |-> PyStr(T_globex), author |-> PyStr(<<"j","d","o","e">>)]
N_acme   == [k |-> "dict", type |-> PyStr(S_comment), id |-> None,
             text |-> PyStr(T_acme), author |-> None]
N_long   == [k |-> "dict", type |-> PyStr(S_comment), id |-> PyStr(<<"5","5","5">>),
             text |-> PyStr(T_long), author |-> PyStr(<<"j","d","o","e">>)]
N_story  == [k |-> "dict", type |-> PyStr(<<"s","t","o","r","y">>), id |-> PyInt(1),
             text |-> PyStr(T_globex), author |-> PyStr(<<"j","d","o","e">>)]
N_markup == [k |-> "dict", type |-> PyStr(S_comment), id |-> PyInt(7),
             text |-> PyStr(T_markup), author |-> PyStr(<<"j","d","o","e">>)]
N_dot    == [k |-> "dict", type |-> PyStr(S_comment), id |-> PyInt(8),
             text |-> PyStr(T_dot), author |-> PyStr(<<"j","d","o","e">>)]
N_null   == [k |-> "null"]

Nodes == {N_globex, N_acme, N_long, N_story, N_markup, N_dot, N_null}

\* the JSON the item endpoint answers with: an object with "children", an
\* object with "children": null, an object without it, a JSON array
ItemBodies ==
  { [k |-> "dict", children |-> PyList(cs)] : cs \in SeqsUpTo(Nodes, MaxComments) }
    \cup { [k |-> "dict", children |-> None], [k |-> "dict", children |-> Absent],
           [k |-> "list"] }

H_ok   == [k |-> "dict", title |-> PyStr(<<"A","s","k"," ","H","N",":"," ","W","h","o"," ","i","s"," ","h","i","r","i","n","g","?"," ","(","M","a","y"," ","2","0","2","5",")">>), objectID |-> PyStr(<<"4","1">>)]
H_ok2  == [k |-> "dict", title |-> PyStr(<<"A","S","K"," ","H","N",":","w","h","o"," ","i","s"," ","h","i","r","i","n","g","?">>), objectID |-> PyStr(<<" ","7"," ">>)]
H_bad  == [k |-> "dict", title |-> PyStr(<<"A","s","k"," ","H","N",":"," ","W","h","o"," ","i","s"," ","h","i","r","i","n","g","?"," ","(","M","a","y"," ","2","0","2","5",")">>), objectID |-> PyStr(<<"4","x">>)]
H_old  == [k |-> "dict", title |-> PyStr(<<"A","s","k"," ","H","N",":"," ","W","h","o"," ","i","s"," ","h","i","r","i","n","g">>), objectID |-> PyInt(7)]
H_none == [k |-> "dict", title |-> None, objectID |-> None]
H_str  == [k |-> "str"]

Hits == {H_ok, H_ok2, H_bad, H_old, H_none, H_str}

\* the JSON a search endpoint answers with
SearchBodies ==
  { [k |-> "dict", hits |-> PyList(hs)] : hs \in SeqsUpTo(Hits, MaxHits) }
    \cup { [k |-> "dict", hits |-> None], [k |-> "dict", hits |-> Absent],
           [k |-> "list"] }

Bodies(r) ==
  CASE r = "item"   -> ItemBodies
    [] r = "direct" -> { [k |-> "dict", hits |-> Absent], [k |-> "list"] }
    [] OTHER        -> SearchBodies

TermLists == { <<>>, << <<"H","I","R","I","N","G">> >> }
Locations == { None, PyStr(<<>>), PyStr(S_Remote), PyStr(<<" ","a","u","s","t","i","n"," ">>) }
Limits == {0, 1, MaxLimit}

\* the raw texts _strip_html is applied to: concatenations of pieces
Pieces == { <<"<">>, <<">">>, <<"&">>, <<"l","t",";">>, <<"&","l","t",";">>, <<"&","g","t",";">>, <<"&","a","m","p",";">>, <<" ">>, <<"b">>, <<"&","#","3","2",";">> }
StripInputs == { Concat(ps) : ps \in SeqsUpTo(Pieces, MaxPieces) }

Entries == {"yc_search", "_latest_who_is_hiring_story_id", "_http_get_json", "_strip_html"}

(* ------------------------------------------------------------------ *)
(* State                                                               *)
(* ------------------------------------------------------------------ *)

VARIABLES
  entry,      \* the function the caller invoked
  pc,         \* the position of control
  terms,      \* yc_search: argument terms
  location,   \* yc_search: argument location
  limit,      \* yc_search: argument limit
  req,        \* _http_get_json: which request this call serves
  retries,    \* _http_get_json: argument retries
  attempt,    \* _http_get_json: the loop variable
  last_err,   \* _http_get_json: local last_err
  slept,      \* _http_get_json: the delays of time.sleep so far, in ms
  gets,       \* _http_get_json: the number of SESSION.get calls so far
  http_out,   \* _http_get_json: its outcome
  issued,     \* locator: the searches it has issued, in order
  dated,      \* locator: "pending", "ok" or "failed" for the dated search
  hits,       \* locator: local hits
  loc_out,    \* locator: its outcome
  story_id,   \* yc_search: local story_id
  caught,     \* yc_search: the exception caught at line 210, "" if none
  comments,   \* yc_search: local comments
  idx,        \* yc_search: position of the for loop in comments
  results,    \* yc_search: local results
  outcome,    \* yc_search: its outcome
  norm        \* _strip_html: the raw text and its successive normal forms

argVars == <<terms, location, limit>>
httpVars == <<req, retries, attempt, last_err, slept, gets, http_out>>
locVars == <<issued, dated, hits, loc_out>>
ysVars == <<story_id, caught, comments, idx, results, outcome>>
vars == <<entry, pc, terms, location, limit, req, retries, attempt, last_err,
          slept, gets, http_out, issued, dated, hits, loc_out, story_id,
          caught, comments, idx, results, outcome, norm>>

\* no call of _http_get_json is active
HttpIdle ==
  /\ req = "none" /\ retries = DefaultRetries /\ attempt = 0 /\ last_err = "None"
  /\ slept = <<>> /\ gets = 0 /\ http_out = NoOut

\* no call of the locator is active
LocIdle == issued = <<>> /\ dated = "pending" /\ hits = Absent /\ loc_out = NoOut

\* yc_search has not started
YsIdle ==
  /\ story_id = Absent /\ caught = "" /\ comments = <<>> /\ idx = 1
  /\ results = <<>> /\ outcome = NoOut

ArgsIdle == terms = <<>> /\ location = None /\ limit = 0

Init ==
  /\ entry \in Entries
  /\ LocIdle /\ YsIdle
  /\ IF entry = "yc_search"
       THEN /\ terms \in TermLists /\ location \in Locations /\ limit \in Limits
            /\ HttpIdle /\ norm = <<>> /\ pc = "ys_start"
     ELSE IF entry = "_latest_who_is_hiring_story_id"
       THEN ArgsIdle /\ HttpIdle /\ norm = <<>> /\ pc = "loc_start"
     ELSE IF entry = "_http_get_json"
       THEN /\ ArgsIdle /\ norm = <<>>
            /\ req = "direct" /\ retries \in -1..MaxRetries /\ attempt = 0
            /\ last_err = "None" /\ slept = <<>> /\ gets = 0 /\ http_out = NoOut
            /\ pc = "http_try"
     ELSE /\ ArgsIdle /\ HttpIdle
          /\ norm \in { <<x>> : x \in StripInputs }
          /\ pc = "strip"

(* ------------------------------------------------------------------ *)
(* _http_get_json, lines 54-68                                         *)
(* ------------------------------------------------------------------ *)

\* the call _http_get_json(url, params) for request r, retries defaulted
HttpCall(r) ==
  /\ req' = r /\ retries' = DefaultRetries /\ attempt' = 0 /\ last_err' = "None"
  /\ slept' = <<>> /\ gets' = 0 /\ http_out' = NoOut
  /\ pc' = "http_try"

\* the frame of _http_get_json is dropped
HttpDrop ==
  /\ req' = "none" /\ retries' = DefaultRetries /\ attempt' = 0 /\ last_err' = "None"
  /\ slept' = <<>> /\ gets' = 0 /\ http_out' = NoOut

\* _http_get_json leaves with outcome out.  Called directly, its locals and
\* its effects stay in the state for inspection; called by the locator or by
\* yc_search, its frame is gone and the caller sees the outcome alone
HttpLeave(out, err, n) ==
  /\ http_out' = out
  /\ pc' = "http_ret"
  /\ IF entry = "_http_get_json"
       THEN last_err' = err /\ gets' = n /\ UNCHANGED <<retries, attempt, slept>>
       ELSE /\ retries' = DefaultRetries /\ attempt' = 0 /\ last_err' = "None"
            /\ slept' = <<>> /\ gets' = 0

\* lines 58-60: the attempt succeeds and its JSON is returned
HttpGetOk ==
  /\ pc = "http_try" /\ attempt <= retries
  /\ \E body \in Bodies(req) : HttpLeave(Return(body), last_err, gets + 1)
  /\ UNCHANGED <<entry, argVars, req, locVars, ysVars, norm>>

\* lines 58-66: the attempt fails; the last attempt re-raises
HttpGetFail ==
  /\ pc = "http_try" /\ attempt <= retries
  /\ \E e \in Errors :
       IF attempt < retries
         THEN /\ last_err' = e /\ gets' = gets + 1
              /\ pc' = "http_sleep"
              /\ UNCHANGED <<retries, attempt, slept, http_out>>
         ELSE HttpLeave(Raise(e), e, gets + 1)
  /\ UNCHANGED <<entry, argVars, req, locVars, ysVars, norm>>

\* HttpSleep with a delay that does not grow with the attempt
HttpSleep_constant ==
  /\ pc = "http_sleep"
  /\ slept' = Append(slept, SleepBaseMs)
  /\ attempt' = attempt + 1
  /\ pc' = "http_try"
  /\ UNCHANGED <<entry, argVars, req, retries, last_err, gets, http_out, locVars, ysVars, norm>>

\* line 64 and the next turn of the loop
HttpSleep ==
  /\ pc = "http_sleep"
  /\ slept' = Append(slept, SleepBaseMs * (attempt + 1))
  /\ attempt' = attempt + 1
  /\ pc' = "http_try"
  /\ UNCHANGED <<entry, argVars, req, retries, last_err, gets, http_out, locVars, ysVars, norm>>

\* line 68: range(retries + 1) is empty, last_err is still None and
\* `raise None` is a TypeError
HttpNoAttempt ==
  /\ pc = "http_try" /\ attempt > retries
  /\ HttpLeave(Raise("TypeError"), last_err, gets)
  /\ UNCHANGED <<entry, argVars, req, locVars, ysVars, norm>>

(* ------------------------------------------------------------------ *)
(* _latest_who_is_hiring_story_id, lines 144-187                       *)
(* ------------------------------------------------------------------ *)

\* data.get("hits", []) for a JSON object
HitsOf(body) == IF body.hits = Absent THEN PyList(<<>>) ELSE body.hits

\* the call of line 160 returned a JSON object
GotObject == http_out.kind = "return" /\ http_out.val.k = "dict"

\* what the try block of a search raised: the failure of _http_get_json, or
\* the AttributeError of data.get on a JSON value that is no object
SearchError == IF http_out.kind = "raise" THEN http_out.exc ELSE "AttributeError"

\* lines 152-160: the dated search is issued
LocStart ==
  /\ pc = "loc_start"
  /\ issued' = <<"dated">>
  /\ HttpCall("dated")
  /\ UNCHANGED <<entry, argVars, dated, hits, loc_out, ysVars, norm>>

\* LocDatedOk falling back to the undated search when there are no hits
LocDatedOk_fallback_on_empty ==
  /\ pc = "http_ret" /\ req = "dated" /\ GotObject
  /\ IF HitsOf(http_out.val) = PyList(<<>>)
       THEN /\ dated' = "ok"
            /\ issued' = Append(issued, "fallback")
            /\ HttpCall("fallback")
            /\ UNCHANGED hits
       ELSE /\ hits' = HitsOf(http_out.val)
            /\ dated' = "ok"
            /\ HttpDrop
            /\ pc' = "loc_select"
            /\ UNCHANGED issued
  /\ UNCHANGED <<entry, argVars, loc_out, ysVars, norm>>

\* lines 160-161: the dated search answered
LocDatedOk ==
  /\ pc = "http_ret" /\ req = "dated" /\ GotObject
  /\ hits' = HitsOf(http_out.val)
  /\ dated' = "ok"
  /\ HttpDrop
  /\ pc' = "loc_select"
  /\ UNCHANGED <<entry, argVars, issued, loc_out, ysVars, norm>>

\* lines 162-170: the dated search failed, the undated search is issued
LocDatedFail ==
  /\ pc = "http_ret" /\ req = "dated" /\ ~GotObject
  /\ dated' = "failed"
  /\ issued' = Append(issued, "fallback")
  /\ HttpCall("fallback")
  /\ UNCHANGED <<entry, argVars, hits, loc_out, ysVars, norm>>

\* lines 164-171: the undated search answered
LocFallbackOk ==
  /\ pc = "http_ret" /\ req = "fallback" /\ GotObject
  /\ hits' = HitsOf(http_out.val)
  /\ HttpDrop
  /\ pc' = "loc_select"
  /\ UNCHANGED <<entry, argVars, issued, dated, loc_out, ysVars, norm>>

\* lines 164-171: the undated search failed inside the except block, which
\* nothing in the locator catches
LocFallbackFail ==
  /\ pc = "http_ret" /\ req = "fallback" /\ ~GotObject
  /\ loc_out' = Raise(SearchError)
  /\ HttpDrop
  /\ pc' = "loc_ret"
  /\ UNCHANGED <<entry, argVars, issued, dated, hits, ysVars, norm>>

\* lines 173-187
LocSelect ==
  /\ pc = "loc_select"
  /\ loc_out' = SelectStory(hits)
  /\ pc' = "loc_ret"
  /\ UNCHANGED <<entry, argVars, httpVars, issued, dated, hits, ysVars, norm>>

(* ------------------------------------------------------------------ *)
(* yc_search, lines 195-248                                            *)
(* ------------------------------------------------------------------ *)

\* the frame of the locator is dropped
LocDrop == issued' = <<>> /\ dated' = "pending" /\ hits' = Absent /\ loc_out' = NoOut

\* `return []` of lines 206 and 213
ReturnEmpty == results' = <<>> /\ outcome' = Return("results") /\ pc' = "done"

\* line 202: the locator is called
YsStart ==
  /\ pc = "ys_start"
  /\ pc' = "loc_start"
  /\ UNCHANGED <<entry, argVars, httpVars, locVars, ysVars, norm>>

\* lines 203-206: the locator found no thread
YsNoThread ==
  /\ pc = "loc_ret" /\ entry = "yc_search"
  /\ loc_out = Return(None)
  /\ story_id' = None
  /\ ReturnEmpty
  /\ LocDrop
  /\ UNCHANGED <<entry, argVars, httpVars, caught, comments, idx, norm>>

\* lines 210-213: the locator raised
YsLocateFailed ==
  /\ pc = "loc_ret" /\ entry = "yc_search"
  /\ loc_out.kind = "raise"
  /\ caught' = loc_out.exc
  /\ ReturnEmpty
  /\ LocDrop
  /\ UNCHANGED <<entry, argVars, httpVars, story_id, comments, idx, norm>>

\* lines 207-209, 191: the thread is fetched
YsFetch ==
  /\ pc = "loc_ret" /\ entry = "yc_search"
  /\ loc_out.kind = "return" /\ loc_out.val # None
  /\ story_id' = loc_out.val
  /\ LocDrop
  /\ HttpCall("item")
  /\ UNCHANGED <<entry, argVars, caught, comments, idx, results, outcome, norm>>

\* data.get("children", []) or []
ChildrenOf(body) == IF body.children.t = "list" THEN body.children.v ELSE <<>>

\* lines 191-192, 209: the thread arrived
YsFetched ==
  /\ pc = "http_ret" /\ req = "item" /\ GotObject
  /\ comments' = ChildrenOf(http_out.val)
  /\ idx' = 1
  /\ HttpDrop
  /\ pc' = "ys_loop"
  /\ UNCHANGED <<entry, argVars, locVars, story_id, caught, results, outcome, norm>>

\* YsFetchFailed without the except block of line 210
YsFetchFailed_propagates ==
  /\ pc = "http_ret" /\ req = "item" /\ ~GotObject
  /\ outcome' = Raise(SearchError)
  /\ pc' = "done"
  /\ HttpDrop
  /\ UNCHANGED <<entry, argVars, locVars, story_id, caught, comments, idx, results, norm>>

\* lines 210-213: fetching the thread raised
YsFetchFailed ==
  /\ pc = "http_ret" /\ req = "item" /\ ~GotObject
  /\ caught' = SearchError
  /\ ReturnEmpty
  /\ HttpDrop
  /\ UNCHANGED <<entry, argVars, locVars, story_id, comments, idx, norm>>

\* lines 216-246: one iteration of the for loop.  The comment is skipped, or
\* its posting is appended and the loop breaks at the limit, or the iteration
\* raises and nothing in yc_search catches it
YsIterate ==
  /\ pc = "ys_loop" /\ idx <= Len(comments)
  /\ LET step == CommentStep(comments[idx], terms, location)
     IN  IF step.act = "skip"
           THEN /\ idx' = idx + 1
                /\ UNCHANGED <<pc, results, outcome>>
         ELSE IF step.act = "append"
           THEN /\ results' = Append(results, step.job)
                /\ idx' = idx + 1
                /\ IF Len(results) + 1 >= limit
                     THEN pc' = "done" /\ outcome' = Return("results")
                     ELSE pc' = pc /\ outcome' = outcome
         ELSE /\ outcome' = Raise(step.exc)
              /\ pc' = "done"
              /\ UNCHANGED <<idx, results>>
  /\ UNCHANGED <<entry, argVars, httpVars, locVars, story_id, caught, comments, norm>>

\* line 248: the loop ran out of comments
YsReturn ==
  /\ pc = "ys_loop" /\ idx > Len(comments)
  /\ outcome' = Return("results")
  /\ pc' = "done"
  /\ UNCHANGED <<entry, argVars, httpVars, locVars, story_id, caught, comments,
                 idx, results, norm>>

(* ------------------------------------------------------------------ *)
(* _strip_html applied to its own result                               *)
(* ------------------------------------------------------------------ *)

StripApply ==
  /\ pc = "strip" /\ Len(norm) < 3
  /\ norm' = Append(norm, _strip_html(norm[Len(norm)]))
  /\ UNCHANGED <<entry, pc, argVars, httpVars, locVars, ysVars>>

Next ==
  \/ HttpGetOk \/ HttpGetFail \/ HttpSleep \/ HttpNoAttempt
  \/ LocStart \/ LocDatedOk \/ LocDatedFail \/ LocFallbackOk \/ LocFallbackFail
  \/ LocSelect
  \/ YsStart \/ YsNoThread \/ YsLocateFailed \/ YsFetch \/ YsFetched
  \/ YsFetchFailed \/ YsIterate \/ YsReturn
  \/ StripApply

Spec == Init /\ [][Next]_vars

(* ------------------------------------------------------------------ *)
(* Properties                                                          *)
(* ------------------------------------------------------------------ *)

\* yc_search returned a list
Returned == entry = "yc_search" /\ pc = "done" /\ outcome.kind = "return"

\* _http_get_json was called directly and has left
HttpLeft == entry = "_http_get_json" /\ pc = "http_ret"

\* the locator has left with the hits it obtained
LocReturned == pc = "loc_ret" /\ loc_out.kind = "return" /\ hits.t = "list"

\* C1: the list yc_search returns has at most `limit` entries
C1_AtMostLimit == Returned => Len(results) <= limit

\* C2: no two postings of the list yc_search returns have the same id
C2_UniqueIds ==
  Returned =>
    \A i, j \in DOMAIN results : i # j => results[i].id # results[j].id

\* C3 as stated: with a location supplied, every posting carries it and its
\* description contains "remote" (for "Remote") or the location, ignoring case
C3_DescriptionHasLocation ==
  (Returned /\ location # None) =>
    \A i \in DOMAIN results :
      /\ results[i].location = location.v
      /\ Contains(Lower(results[i].description),
                  IF location.v = S_Remote THEN S_remote ELSE Lower(location.v))

\* comment c is a well-formed node whose posting is p and whose normalized
\* text contains sub, ignoring case
PostingOf(c, p, sub) ==
  /\ c.k = "dict" /\ RawText(c).t = "str"
  /\ LET text == _strip_html(RawText(c).v)
     IN  /\ p.id = S_hn \o Str(c.id)
         /\ p.description = Take(text, DescriptionMax)
         /\ Contains(Lower(text), sub)
         /\ Len(text) <= DescriptionMax => Contains(Lower(p.description), sub)

\* C3 amended: with a non-empty location supplied, every posting carries it,
\* and the normalized text of the posting's comment, whose first 800
\* characters are the description, contains the location stripped of
\* surrounding whitespace, ignoring case
C3_TextHasLocation ==
  (Returned /\ ~Falsy(location)) =>
    \A i \in DOMAIN results :
      /\ results[i].location = location.v
      /\ \E k \in DOMAIN comments :
           PostingOf(comments[k], results[i], Lower(Strip(location.v)))

\* a posting of a text longer than the description, matched on "remote" past
\* the cut
C3_Witness ==
  /\ Returned /\ location = PyStr(S_Remote)
  /\ \E i \in DOMAIN results :
       /\ Len(results[i].description) = DescriptionMax
       /\ ~Contains(Lower(results[i].description), S_remote)

\* C4: a malformed comment is skipped: yc_search does not raise, and a
\* comment without identifier contributes no posting
C4_MalformedSkipped ==
  (entry = "yc_search" /\ pc = "done") =>
    /\ outcome.kind = "return"
    /\ \A i \in DOMAIN results : results[i].id # S_hn \o S_None

\* the thread cannot be obtained: the locator raised or found nothing, or the
\* fetch of the thread raised
NoThread ==
  /\ entry = "yc_search"
  /\ \/ pc = "loc_ret" /\ (loc_out.kind = "raise" \/ loc_out = Return(None))
     \/ pc = "http_ret" /\ req = "item" /\ ~GotObject

\* C5: when the thread cannot be obtained, yc_search returns the empty list
\* and does not raise
C5_EmptyWithoutThread ==
  [][NoThread => (pc' = "done" /\ outcome' = Return("results") /\ results' = <<>>)]_vars

\* the fetch of a located thread failed after its retries
C5_Witness ==
  /\ Returned /\ results = <<>>
  /\ story_id # Absent /\ story_id # None /\ caught = "HTTPError"

\* C6: at most retries + 1 attempts; the first success returns at once; failed
\* attempt k < retries is followed by a sleep of 0.8 * (k + 1) s; when every
\* attempt failed, the last failure is raised without a further sleep
C6_BoundedRetry ==
  /\ gets <= (IF retries >= 0 THEN retries + 1 ELSE 0)
  /\ \A i \in DOMAIN slept : slept[i] = SleepBaseMs * i
  /\ pc = "http_try" => (gets = attempt /\ Len(slept) = attempt)
  /\ pc = "http_sleep" => (gets = attempt + 1 /\ Len(slept) = attempt /\ attempt < retries)
  /\ (HttpLeft /\ http_out.kind = "return") =>
       (gets = attempt + 1 /\ Len(slept) = attempt)
  /\ (HttpLeft /\ http_out.kind = "raise" /\ retries >= 0) =>
       (gets = retries + 1 /\ Len(slept) = retries /\ http_out.exc = last_err
          /\ last_err \in Errors)

\* three attempts failed, with two sleeps, and the last failure is raised
C6_Witness ==
  /\ HttpLeft /\ retries = 2 /\ http_out = Raise("HTTPError")
  /\ slept = <<SleepBaseMs, 2 * SleepBaseMs>> /\ gets = 3

\* the hits whose title matches the pattern
Matching(v) == { k \in DOMAIN v : v[k].k = "dict" /\ TitleMatches(TitleOf(v[k])) }

\* the hits whose title matches and whose objectID converts to an integer
MatchingParsable(v) == { k \in Matching(v) : IntOf(v[k].objectID).ok }

Least(S) == CHOOSE k \in S : \A j \in S : k <= j

\* C7 as stated: the identifier of the first matching hit, else of the first
\* hit, else None
C7_FirstMatch ==
  LocReturned =>
    LET v == hits.v
        k == IF Matching(v) # {} THEN Least(Matching(v)) ELSE 1
    IN  IF v = <<>> THEN loc_out.val = None
        ELSE /\ IntOf(v[k].objectID).ok
             /\ loc_out.val = PyInt(IntOf(v[k].objectID).val)

\* C7 amended: the integer of the first hit whose title matches and whose
\* objectID converts; without such a hit, the integer of the first hit's
\* objectID, or None when that does not convert; None without hits
C7_FirstParsableMatch ==
  LocReturned =>
    LET v == hits.v
    IN  IF MatchingParsable(v) # {}
          THEN loc_out.val = PyInt(IntOf(v[Least(MatchingParsable(v))].objectID).val)
        ELSE IF v # <<>> /\ IntOf(v[1].objectID).ok
          THEN loc_out.val = PyInt(IntOf(v[1].objectID).val)
        ELSE loc_out.val = None

\* the first matching hit has no integer identifier and the second one has
C7_Witness ==
  /\ pc = "loc_ret" /\ hits = PyList(<<H_bad, H_ok>>)
  /\ loc_out = Return(PyInt(41))

\* C8 as stated: _strip_html(_strip_html(x)) = _strip_html(x)
C8_Idempotent ==
  (entry = "_strip_html" /\ Len(norm) = 3) => norm[3] = norm[2]

\* C8 amended: when _strip_html(x) contains no tag and no character
\* reference, _strip_html(_strip_html(x)) = _strip_html(x)
C8_IdempotentOnPlainText ==
  (entry = "_strip_html" /\ Len(norm) = 3
     /\ TagStart(norm[2]) = 0 /\ RefStart(norm[2]) = 0) => norm[3] = norm[2]

\* a raw text with a reference, changed by normalization into a plain text
\* that still holds "&" and "<"
C8_Witness ==
  /\ entry = "_strip_html" /\ Len(norm) = 3
  /\ TagStart(norm[2]) = 0 /\ RefStart(norm[2]) = 0
  /\ norm[2] # norm[1] /\ norm[3] = norm[2]
  /\ Contains(norm[2], <<"&">>) /\ Contains(norm[2], <<"<">>)

\* C9: the undated search is issued exactly when the dated search failed,
\* after it, never when it answered (even without hits); a failure of the
\* undated search leaves the locator as its exception
C9_FallbackOnlyAfterFailure ==
  /\ [](/\ issued \in {<<>>, <<"dated">>, <<"dated", "fallback">>}
        /\ (issued = <<"dated", "fallback">>) <=> (dated = "failed")
        /\ req = "fallback" => issued = <<"dated", "fallback">>
        /\ req = "dated" => issued = <<"dated">>)
  /\ [][(pc = "http_ret" /\ req = "dated") =>
          IF GotObject
            THEN issued' = issued /\ dated' = "ok" /\ pc' = "loc_select"
            ELSE issued' = <<"dated", "fallback">> /\ req' = "fallback"]_vars
  /\ [][(pc = "http_ret" /\ req = "fallback" /\ ~GotObject) =>
          (pc' = "loc_ret" /\ loc_out' = Raise(SearchError))]_vars

\* the dated search failed, the undated one was issued and failed too
C9_Witness ==
  /\ pc = "loc_ret" /\ dated = "failed" /\ issued = <<"dated", "fallback">>
  /\ loc_out = Raise("JSONDecodeError")

\* the postings of the comments among cs[k..] that pass every filter
RECURSIVE PassingJobs(_, _)
PassingJobs(cs, k) ==
  IF k > Len(cs) THEN <<>>
  ELSE LET step == CommentStep(cs[k], terms, location)
       IN  IF step.act = "append" THEN <<step.job>> \o PassingJobs(cs, k + 1)
           ELSE PassingJobs(cs, k + 1)

\* C10: the list yc_search returns is the postings of the first `limit`
\* comments that pass every filter, in thread order
C10_FirstLimitPassing ==
  Returned => results = Take(PassingJobs(comments, 1), limit)

====
